---- MODULE Spec2Model ----
(***************************************************************************)
(* Model of src/DumpProcessing.py: class PoEDataImporter.                  *)
(*                                                                         *)
(* The importer is built by __init__, which runs five dependent            *)
(* assignments in sequence: the dump files are discovered, catalogued,     *)
(* the canonical currency list is taken from the newest dump, and every    *)
(* dump is extracted, grouped, aligned and joined into self.df.            *)
(*                                                                         *)
(* pandas objects are modelled by what the calls used in the source do:    *)
(*   - a csv dump is the sequence of its rows in file order; row i of the  *)
(*     file carries index label i-1 after read_csv;                        *)
(*   - a grouped table is a record [index, columns, cell]: the set of row  *)
(*     labels (elapsed days), the set of (Currency, League) column keys    *)
(*     and the cell values, NaN where pandas stores np.nan;                *)
(*   - a Python exception is the name of its type in err (empty when the   *)
(*     call returned).                                                     *)
(* Dates are day numbers, so a timedelta is an integer number of days.     *)
(***************************************************************************)
EXTENDS Integers, Sequences, FiniteSets

VARIABLES
    fs,                       \* the *.csv files glob finds, in glob order
    pc,                       \* position of the running code
    error,                    \* type of the exception that was raised, or ""
    assigned,                 \* names of the attributes of self that exist
    currency_file_path_list,  \* self.currency_file_path_list
    df_files,                 \* self.df_files (the catalog)
    latest_currency,          \* self.latest_currency
    league_names,             \* self.league_names
    df,                       \* self.df (the combined table)
    data_df,                  \* get_data: local df
    data_i,                   \* get_data: position of the loop in file_paths
    league,                   \* rows returned by the last extract_df call
    league_grp                \* table of the last group_df/fill_league_currency call

vars == <<fs, pc, error, assigned, currency_file_path_list, df_files,
          latest_currency, league_names, df, data_df, data_i, league, league_grp>>

(***************************************************************************)
(* Bounds of the model.                                                    *)
(***************************************************************************)
\* files in the directory of a build
MaxFiles == 2
\* rows in all the dumps of a build together
MaxRows == 3
\* rows of the dump given to a single extraction
MaxDumpRows == 3

\* league names and currency names, each in lexicographic order
LeagueOrder == <<"A", "B">>
CurrencyOrder == <<"Orb1", "Orb2">>
Leagues == {LeagueOrder[i] : i \in DOMAIN LeagueOrder}
Currencies == {CurrencyOrder[i] : i \in DOMAIN CurrencyOrder}
\* snapshot dates in file names, days in dump rows, rates
FileDates == {1, 2}
RowDates == {0, 1}
Values == {1, 2}

ChaosOrb == "Chaos Orb"
Pays == {ChaosOrb, "Exalted Orb"}
NaN == -1

LeagueRank(l) == CHOOSE i \in DOMAIN LeagueOrder : LeagueOrder[i] = l
CurrencyRank(c) == CHOOSE i \in DOMAIN CurrencyOrder : CurrencyOrder[i] = c

(***************************************************************************)
(* Helpers for Python and pandas values.                                   *)
(***************************************************************************)
Range(s) == {s[i] : i \in DOMAIN s}

RECURSIVE SumValues(_)
SumValues(s) == IF s = <<>> THEN 0 ELSE s[1].Value + SumValues(Tail(s))

\* list.sort() of a list of distinct currency names
RECURSIVE SortedCurrencies(_)
SortedCurrencies(S) ==
    IF S = {} THEN <<>>
    ELSE LET m == CHOOSE c \in S : \A d \in S : CurrencyRank(c) <= CurrencyRank(d)
         IN <<m>> \o SortedCurrencies(S \ {m})

\* the labels of an index in ascending order
RECURSIVE Ascending(_)
Ascending(S) ==
    IF S = {} THEN <<>>
    ELSE LET m == CHOOSE t \in S : \A u \in S : t <= u
         IN <<m>> \o Ascending(S \ {m})

EmptyTable == [index |-> {}, columns |-> {}, cell |-> <<>>]

Table(idx, cols, F(_, _)) ==
    [index |-> idx, columns |-> cols,
     cell |-> [k \in idx \X cols |-> F(k[1], k[2])]]

Returned(v) == [err |-> "", val |-> v]
Raised(e, v) == [err |-> e, val |-> v]

(***************************************************************************)
(* get_currency_file_paths: the csv paths whose text contains "currency".  *)
(* A path is the position of its file in fs.                               *)
(***************************************************************************)
RECURSIVE currency_paths(_)
currency_paths(n) ==
    IF n = 0 THEN <<>>
    ELSE IF fs[n].name = "currency"
         THEN Append(currency_paths(n - 1), n)
         ELSE currency_paths(n - 1)

get_currency_file_paths == currency_paths(Len(fs))

(***************************************************************************)
(* get_file_df                                                             *)
(***************************************************************************)
\* keys of file_dict: a dict keeps a key at the place of its first insertion
RECURSIVE file_dict_keys(_)
file_dict_keys(file_list) ==
    IF file_list = <<>> THEN <<>>
    ELSE LET n == Len(file_list)
             rest == file_dict_keys(SubSeq(file_list, 1, n - 1))
             key == fs[file_list[n]].league
         IN IF key \in Range(rest) THEN rest ELSE Append(rest, key)

\* value of file_dict[key]: the last file of the list with that key
file_dict_value(file_list, key) ==
    LET last == CHOOSE i \in DOMAIN file_list :
                   /\ fs[file_list[i]].league = key
                   /\ \A j \in DOMAIN file_list :
                         fs[file_list[j]].league = key => j <= i
    IN [League |-> key, Date |-> fs[file_list[last]].date, File |-> file_list[last]]

\* sort_values(by=["Date"], ascending=False); rows of equal Date keep their order
RECURSIVE sort_values_date_desc(_)
sort_values_date_desc(rows) ==
    IF rows = <<>> THEN <<>>
    ELSE LET n == Len(rows)
             sorted == sort_values_date_desc(SubSeq(rows, 1, n - 1))
             r == rows[n]
             k == Cardinality({i \in DOMAIN sorted : sorted[i].Date >= r.Date})
         IN SubSeq(sorted, 1, k) \o <<r>> \o SubSeq(sorted, k + 1, Len(sorted))

\* get_file_df that returns the frame of an empty file list as an empty catalog
get_file_df_empty(file_list) ==
    LET keys == file_dict_keys(file_list)
        rows == [i \in DOMAIN keys |-> file_dict_value(file_list, keys[i])]
    IN Returned(sort_values_date_desc(rows))

get_file_df(file_list) ==
    LET keys == file_dict_keys(file_list)
        rows == [i \in DOMAIN keys |-> file_dict_value(file_list, keys[i])]
    IN IF file_list = <<>>
       THEN Raised("KeyError", <<>>)     \* df["Date"] of a frame with no column
       ELSE Returned(sort_values_date_desc(rows))

(***************************************************************************)
(* extract_df; readable is whether pd.read_csv can read the file now.      *)
(***************************************************************************)
\* extract_df that takes the earliest kept date as the origin
extract_df_min(file_path, readable) ==
    LET raw == fs[file_path].rows
        kept == SelectSeq(raw, LAMBDA r : r.Pay = ChaosOrb)
        first == CHOOSE d \in {kept[i].Date : i \in DOMAIN kept} :
                    \A i \in DOMAIN kept : d <= kept[i].Date
    IN IF ~readable THEN Raised("FileNotFoundError", <<>>)
       ELSE IF raw = <<>> \/ raw[1].Pay # ChaosOrb
            THEN Raised("KeyError", <<>>)
            ELSE Returned([i \in DOMAIN kept |->
                     [League |-> fs[file_path].league,
                      Date |-> kept[i].Date - first,
                      Currency |-> kept[i].Get,
                      Value |-> kept[i].Value]])

\* extract_df that reads the origin before it filters the rows
extract_df_before(file_path, readable) ==
    LET raw == fs[file_path].rows
        kept == SelectSeq(raw, LAMBDA r : r.Pay = ChaosOrb)
    IN IF ~readable THEN Raised("FileNotFoundError", <<>>)
       ELSE IF raw = <<>>
            THEN Raised("KeyError", <<>>)
            ELSE Returned([i \in DOMAIN kept |->
                     [League |-> fs[file_path].league,
                      Date |-> kept[i].Date - raw[1].Date,
                      Currency |-> kept[i].Get,
                      Value |-> kept[i].Value]])

extract_df(file_path, readable) ==
    LET raw == fs[file_path].rows
        kept == SelectSeq(raw, LAMBDA r : r.Pay = ChaosOrb)
    IN IF ~readable THEN Raised("FileNotFoundError", <<>>)
       ELSE IF raw = <<>> \/ raw[1].Pay # ChaosOrb
            THEN Raised("KeyError", <<>>)     \* df.loc[0]: label 0 was filtered out
            ELSE Returned([i \in DOMAIN kept |->
                     [League |-> fs[file_path].league,
                      Date |-> kept[i].Date - raw[1].Date,
                      Currency |-> kept[i].Get,
                      Value |-> kept[i].Value]])

(***************************************************************************)
(* group_df                                                                *)
(***************************************************************************)
\* group_df that keeps the last value of a group instead of the sum
group_df_last(rows) ==
    LET group(t, c) == SelectSeq(rows, LAMBDA r :
                           r.Date = t /\ <<r.Currency, r.League>> = c)
    IN Table({rows[i].Date : i \in DOMAIN rows},
             {<<rows[i].Currency, rows[i].League>> : i \in DOMAIN rows},
             LAMBDA t, c : IF group(t, c) = <<>> THEN NaN
                           ELSE group(t, c)[Len(group(t, c))].Value)

group_df(rows) ==
    LET group(t, c) == SelectSeq(rows, LAMBDA r :
                           r.Date = t /\ <<r.Currency, r.League>> = c)
    IN Table({rows[i].Date : i \in DOMAIN rows},
             {<<rows[i].Currency, rows[i].League>> : i \in DOMAIN rows},
             LAMBDA t, c : IF group(t, c) = <<>> THEN NaN
                           ELSE SumValues(group(t, c)))

(***************************************************************************)
(* get_currency_list, get_latest_league_data, get_latest_currency_list     *)
(***************************************************************************)
\* Series.unique(): the distinct names in order of first appearance
RECURSIVE get_currency_list(_)
get_currency_list(rows) ==
    IF rows = <<>> THEN <<>>
    ELSE LET n == Len(rows)
             rest == get_currency_list(SubSeq(rows, 1, n - 1))
         IN IF rows[n].Currency \in Range(rest) THEN rest
            ELSE Append(rest, rows[n].Currency)

\* the File values of the catalog rows whose Date is the maximum
latest_files(catalog) ==
    {catalog[i].File : i \in {j \in DOMAIN catalog :
        \A k \in DOMAIN catalog : catalog[k].Date <= catalog[j].Date}}

get_latest_league_data(catalog, readable) ==
    IF Cardinality(latest_files(catalog)) # 1
    THEN Raised("ValueError", <<>>)    \* [latest_league_file_dir] = ... needs one value
    ELSE extract_df(CHOOSE f \in latest_files(catalog) : TRUE, readable)

get_latest_currency_list(catalog, readable) ==
    LET r == get_latest_league_data(catalog, readable)
    IN IF r.err # "" THEN Raised(r.err, <<>>)
       ELSE Returned(SortedCurrencies(Range(get_currency_list(r.val))))

(***************************************************************************)
(* fill_league_currency                                                    *)
(***************************************************************************)
\* df.columns[0] of a table whose columns are sorted
first_column(columns) ==
    CHOOSE c \in columns : \A d \in columns :
        \/ CurrencyRank(c[1]) < CurrencyRank(d[1])
        \/ c[1] = d[1] /\ LeagueRank(c[2]) <= LeagueRank(d[2])

\* fill_league_currency that adds no column
fill_league_currency_none(table, latest_currency_list) ==
    Returned(table)

fill_league_currency(table, latest_currency_list) ==
    LET league_currency_list == {c[1] : c \in table.columns}
        missing == Range(latest_currency_list) \ league_currency_list
        added == {<<cur, first_column(table.columns)[2]>> : cur \in missing}
    IN IF missing = {} THEN Returned(table)
       ELSE IF table.columns = {}
            THEN Raised("IndexError", EmptyTable)    \* df.columns[0]
            ELSE Returned(Table(table.index, table.columns \cup added,
                     LAMBDA t, c : IF c \in table.columns
                                   THEN table.cell[<<t, c>>] ELSE NaN))

(***************************************************************************)
(* get_data                                                                *)
(***************************************************************************)
\* extract_df, group_df, fill_league_currency of one file (lines 152-154, 156-158)
league_table(file_path, readable, latest_currency_list) ==
    LET e == extract_df(file_path, readable)
    IN IF e.err # "" THEN Raised(e.err, EmptyTable)
       ELSE fill_league_currency(group_df(e.val), latest_currency_list)

\* DataFrame.join(other): how="left", on the index
join(left, right) ==
    IF left.columns \cap right.columns # {}
    THEN Raised("ValueError", EmptyTable)    \* columns overlap, no suffix given
    ELSE Returned(Table(left.index, left.columns \cup right.columns,
             LAMBDA t, c : IF c \in left.columns THEN left.cell[<<t, c>>]
                           ELSE IF t \in right.index THEN right.cell[<<t, c>>]
                           ELSE NaN))

\* reset_index(drop=True): the rows keep their order and are numbered from 0
reset_index(table) ==
    LET labels == Ascending(table.index)
    IN Table(0 .. Len(labels) - 1, table.columns,
             LAMBDA k, c : table.cell[<<labels[k + 1], c>>])

(***************************************************************************)
(* The build: PoEDataImporter.__init__, one action per step.  An exception *)
(* leaves __init__: nothing after the raising call runs.                   *)
(***************************************************************************)
raise(e) ==
    /\ pc' = "raised"
    /\ error' = e

GetCurrencyFilePaths ==
    /\ pc = "get_currency_file_paths"
    /\ currency_file_path_list' = get_currency_file_paths
    /\ assigned' = assigned \cup {"currency_file_path_list"}
    /\ pc' = "get_file_df"
    /\ UNCHANGED <<fs, error, df_files, latest_currency, league_names, df,
                   data_df, data_i, league, league_grp>>

GetFileDf ==
    /\ pc = "get_file_df"
    /\ LET r == get_file_df(currency_file_path_list)
       IN IF r.err # ""
          THEN /\ raise(r.err)
               /\ UNCHANGED <<df_files, assigned>>
          ELSE /\ df_files' = r.val
               /\ assigned' = assigned \cup {"df_files"}
               /\ pc' = "get_latest_currency_list"
               /\ UNCHANGED error
    /\ UNCHANGED <<fs, currency_file_path_list, latest_currency, league_names, df,
                   data_df, data_i, league, league_grp>>

GetLatestCurrencyList ==
    /\ pc = "get_latest_currency_list"
    /\ \E readable \in BOOLEAN :
          LET e == get_latest_league_data(df_files, readable)
              r == get_latest_currency_list(df_files, readable)
          IN /\ league' = e.val
             /\ IF r.err # ""
                THEN /\ raise(r.err)
                     /\ UNCHANGED <<latest_currency, assigned>>
                ELSE /\ latest_currency' = r.val
                     /\ assigned' = assigned \cup {"latest_currency"}
                     /\ pc' = "league_names"
                     /\ UNCHANGED error
    /\ UNCHANGED <<fs, currency_file_path_list, df_files, league_names, df,
                   data_df, data_i, league_grp>>

LeagueNames ==
    /\ pc = "league_names"
    /\ league_names' = [i \in DOMAIN df_files |-> df_files[i].League]
    /\ assigned' = assigned \cup {"league_names"}
    /\ pc' = "get_data"
    /\ UNCHANGED <<fs, error, currency_file_path_list, df_files, latest_currency,
                   df, data_df, data_i, league, league_grp>>

\* get_data, lines 151-154: the first file of the catalog
GetDataFirst ==
    /\ pc = "get_data"
    /\ IF df_files = <<>>
       THEN /\ raise("IndexError")    \* file_paths[0]
            /\ UNCHANGED <<data_df, data_i, league, league_grp>>
       ELSE \E readable \in BOOLEAN :
               LET e == extract_df(df_files[1].File, readable)
                   r == league_table(df_files[1].File, readable, latest_currency)
               IN /\ league' = e.val
                  /\ league_grp' = r.val
                  /\ IF r.err # ""
                     THEN /\ raise(r.err)
                          /\ UNCHANGED <<data_df, data_i>>
                     ELSE /\ data_df' = r.val
                          /\ data_i' = 2
                          /\ pc' = "get_data_loop"
                          /\ UNCHANGED error
    /\ UNCHANGED <<fs, assigned, currency_file_path_list, df_files, latest_currency,
                   league_names, df>>

\* the loop of get_data with a league that cannot be added skipped: the loop
\* ends and the leagues joined so far are returned
GetDataJoin_break ==
    /\ pc = "get_data_loop"
    /\ data_i <= Len(df_files)
    /\ \E readable \in BOOLEAN :
          LET e == extract_df(df_files[data_i].File, readable)
              r == league_table(df_files[data_i].File, readable, latest_currency)
              j == join(data_df, r.val)
          IN /\ league' = e.val
             /\ league_grp' = r.val
             /\ IF r.err # "" \/ j.err # ""
                THEN /\ data_i' = Len(df_files) + 1
                     /\ UNCHANGED <<data_df, pc, error>>
                ELSE /\ data_df' = j.val
                     /\ data_i' = data_i + 1
                     /\ UNCHANGED <<pc, error>>
    /\ UNCHANGED <<fs, assigned, currency_file_path_list, df_files, latest_currency,
                   league_names, df>>

\* get_data, lines 155-159: one turn of the loop over file_paths[1:]
GetDataJoin ==
    /\ pc = "get_data_loop"
    /\ data_i <= Len(df_files)
    /\ \E readable \in BOOLEAN :
          LET e == extract_df(df_files[data_i].File, readable)
              r == league_table(df_files[data_i].File, readable, latest_currency)
              j == join(data_df, r.val)
          IN /\ league' = e.val
             /\ league_grp' = r.val
             /\ IF r.err # ""
                THEN /\ raise(r.err)
                     /\ UNCHANGED <<data_df, data_i>>
                ELSE IF j.err # ""
                THEN /\ raise(j.err)
                     /\ UNCHANGED <<data_df, data_i>>
                ELSE /\ data_df' = j.val
                     /\ data_i' = data_i + 1
                     /\ UNCHANGED <<pc, error>>
    /\ UNCHANGED <<fs, assigned, currency_file_path_list, df_files, latest_currency,
                   league_names, df>>

\* get_data, lines 160-161, and the assignment of self.df
GetDataReturn ==
    /\ pc = "get_data_loop"
    /\ data_i > Len(df_files)
    /\ df' = reset_index(data_df)
    /\ assigned' = assigned \cup {"df"}
    /\ pc' = "done"
    /\ UNCHANGED <<fs, error, currency_file_path_list, df_files, latest_currency,
                   league_names, data_df, data_i, league, league_grp>>

(***************************************************************************)
(* The directories a build is run in.                                      *)
(***************************************************************************)
RawRows == [Date : RowDates, Get : Currencies, Pay : Pays, Value : Values]

\* Rows of the dumps of a build.  A row that is not priced in Chaos Orb is
\* dropped by extract_df whatever its date, currency and rate, and the rate of
\* a kept row changes no row label and no column key: one of each is drawn.
BuildRows ==
    {r \in RawRows : /\ r.Value = 1
                     /\ r.Pay # ChaosOrb => r.Date = 0 /\ r.Get = CurrencyOrder[1]}

\* The dump files <league>.<date>.currency.csv with k rows; the League column
\* of a poe.ninja dump holds the league the file is named after.
CurrencyFiles(k, rows, dates) ==
    {[league |-> l, date |-> d, name |-> "currency", rows |-> r] :
        l \in Leagues, d \in dates, r \in [1 .. k -> rows]}

\* A csv file whose path does not contain "currency"; it is never opened.
ItemsFile == [league |-> LeagueOrder[1], date |-> 1, name |-> "items", rows |-> <<>>]

\* the part of a path the code reads: two files of a directory differ in it
path_of(f) == <<f.league, f.date, f.name>>

\* the directories whose i-th file has counts[i] rows
RECURSIVE Directories(_)
Directories(counts) ==
    IF counts = <<>> THEN {<<>>}
    ELSE LET n == Len(counts)
             files == CurrencyFiles(counts[n], BuildRows, FileDates)
                         \cup (IF counts[n] = 0 THEN {ItemsFile} ELSE {})
         IN {Append(x[1], x[2]) :
                x \in {y \in Directories(SubSeq(counts, 1, n - 1)) \X files :
                          \A i \in DOMAIN y[1] : path_of(y[1][i]) # path_of(y[2])}}

RECURSIVE Total(_)
Total(counts) == IF counts = <<>> THEN 0 ELSE counts[1] + Total(Tail(counts))

NotStarted ==
    /\ error = ""
    /\ assigned = {}
    /\ currency_file_path_list = <<>>
    /\ df_files = <<>>
    /\ latest_currency = <<>>
    /\ league_names = <<>>
    /\ df = EmptyTable
    /\ data_df = EmptyTable
    /\ data_i = 0
    /\ league = <<>>
    /\ league_grp = EmptyTable

Init ==
    /\ \E n \in 0 .. MaxFiles :
          \E counts \in [1 .. n -> 0 .. MaxRows] :
             /\ Total(counts) <= MaxRows
             /\ fs \in Directories(counts)
    /\ pc = "get_currency_file_paths"
    /\ NotStarted

Next ==
    \/ GetCurrencyFilePaths
    \/ GetFileDf
    \/ GetLatestCurrencyList
    \/ LeagueNames
    \/ GetDataFirst
    \/ GetDataJoin
    \/ GetDataReturn

Spec == Init /\ [][Next]_vars

(***************************************************************************)
(* The pipeline of one dump: extract_df, group_df, fill_league_currency    *)
(* applied in turn to a readable dump of any rows, as get_data applies     *)
(* them to each file.                                                      *)
(***************************************************************************)
ExtractDf ==
    /\ pc = "extract_df"
    /\ LET r == extract_df(1, TRUE)
       IN /\ league' = r.val
          /\ IF r.err # ""
             THEN raise(r.err)
             ELSE /\ pc' = "group_df"
                  /\ UNCHANGED error
    /\ UNCHANGED <<fs, assigned, currency_file_path_list, df_files, latest_currency,
                   league_names, df, data_df, data_i, league_grp>>

GroupDf ==
    /\ pc = "group_df"
    /\ league_grp' = group_df(league)
    /\ pc' = "fill_league_currency"
    /\ UNCHANGED <<fs, error, assigned, currency_file_path_list, df_files,
                   latest_currency, league_names, df, data_df, data_i, league>>

FillLeagueCurrency ==
    /\ pc = "fill_league_currency"
    /\ \E latest \in SUBSET Currencies :
          LET r == fill_league_currency(league_grp, SortedCurrencies(latest))
          IN /\ latest_currency' = SortedCurrencies(latest)
             /\ data_df' = r.val
             /\ IF r.err # ""
                THEN raise(r.err)
                ELSE /\ pc' = "returned"
                     /\ UNCHANGED error
    /\ UNCHANGED <<fs, assigned, currency_file_path_list, df_files, league_names,
                   df, data_i, league, league_grp>>

InitExtract ==
    /\ \E k \in 0 .. MaxDumpRows : fs \in {<<f>> : f \in CurrencyFiles(k, RawRows, {1})}
    /\ pc = "extract_df"
    /\ NotStarted

NextExtract ==
    \/ ExtractDf
    \/ GroupDf
    \/ FillLeagueCurrency

SpecExtract == InitExtract /\ [][NextExtract]_vars

(***************************************************************************)
(* Properties.  The raw rows of the dumps are read from fs, next to the    *)
(* values the code computed from them.                                     *)
(***************************************************************************)
\* positions of the rows of a dump that are priced in Chaos Orb
chaos_rows(file_path) ==
    {i \in DOMAIN fs[file_path].rows : fs[file_path].rows[i].Pay = ChaosOrb}

\* elapsed days of the snapshots of a dump, counted from its first row
elapsed_days(file_path) ==
    {fs[file_path].rows[i].Date - fs[file_path].rows[1].Date :
        i \in chaos_rows(file_path)}

\* currencies a dump trades against Chaos Orb
traded(file_path) ==
    {fs[file_path].rows[i].Get : i \in chaos_rows(file_path)}

catalog_files == {df_files[i].File : i \in DOMAIN df_files}

\* the catalog file of a league
league_file(l) ==
    CHOOSE f \in catalog_files : fs[f].league = l

RECURSIVE SumOver(_, _)
SumOver(rows, S) ==
    IF S = {} THEN 0
    ELSE LET i == CHOOSE x \in S : TRUE
         IN rows[i].Value + SumOver(rows, S \ {i})

Permutations(s) ==
    {[i \in DOMAIN s |-> s[f[i]]] :
        f \in {g \in [DOMAIN s -> DOMAIN s] :
                  \A a, b \in DOMAIN s : a # b => g[a] # g[b]}}

\* the file an exception of the build was raised for
failed_file ==
    IF "league_names" \in assigned
    THEN df_files[IF data_i = 0 THEN 1 ELSE data_i].File
    ELSE CHOOSE f \in latest_files(df_files) : TRUE

\* an exception was raised while a catalog file was extracted
failed_in_extraction ==
    /\ pc = "raised"
    /\ "df_files" \in assigned
    /\ error # "ValueError"

\* C1: with two or more leagues in the catalog the combined table has one row
\* for every elapsed time of any league, and the cells of a league that has no
\* snapshot at the elapsed time of a row hold the missing-value sentinel.
C1_OuterJoin ==
    (pc = "done" /\ Len(df_files) >= 2) =>
        LET all == UNION {elapsed_days(f) : f \in catalog_files}
        IN /\ data_df.index = all
           /\ Cardinality(df.index) = Cardinality(all)
           /\ \A t \in data_df.index : \A c \in data_df.columns :
                 t \notin elapsed_days(league_file(c[2]))
                    => data_df.cell[<<t, c>>] = NaN

\* no league of the catalog trades a currency outside the canonical list
no_surplus_currency ==
    \A f \in catalog_files : traded(f) \subseteq Range(latest_currency)

C3_ExtractEveryDump ==
    (pc # "extract_df" /\ chaos_rows(1) # {}) =>
        /\ error = ""
        /\ Len(league) = Cardinality(chaos_rows(1))
        /\ {league[i].Date : i \in DOMAIN league} = elapsed_days(1)

\* C4 as claimed: the least elapsed time of a non-empty extraction is zero.
C4_MinimumIsZero ==
    league # <<>> =>
        /\ \E i \in DOMAIN league : league[i].Date = 0
        /\ \A i \in DOMAIN league : league[i].Date >= 0

\* C4 as amended: the first row of a non-empty extraction has elapsed time
\* zero, and no row has a negative elapsed time exactly when no Chaos Orb row
\* of the file is dated before the first row of the file.
C4_FirstRowIsZero ==
    league # <<>> =>
        /\ league[1].Date = 0
        /\ (\A i \in DOMAIN league : league[i].Date >= 0)
              <=> (\A i \in chaos_rows(1) :
                      fs[1].rows[i].Date >= fs[1].rows[1].Date)

C4_Witness ==
    /\ league # <<>>
    /\ \E i \in DOMAIN league : league[i].Date < 0

\* C5: the catalog has one record for every path of the file list.
C5_OneRecordPerPath ==
    "df_files" \in assigned =>
        /\ Len(df_files) = Len(currency_file_path_list)
        /\ catalog_files = Range(currency_file_path_list)

\* C6: when one file has the greatest snapshot date, every order of the file
\* list selects the same latest file and gives the same canonical list.
C6_OrderIndependent ==
    (/\ pc = "get_latest_currency_list"
     /\ \E p \in Range(currency_file_path_list) :
           \A q \in Range(currency_file_path_list) \ {p} : fs[q].date < fs[p].date)
    => \A file_list \in Permutations(currency_file_path_list) :
          /\ latest_files(get_file_df(file_list).val) = latest_files(df_files)
          /\ get_latest_currency_list(get_file_df(file_list).val, TRUE)
                = get_latest_currency_list(df_files, TRUE)

C9_NoPartialTable ==
    /\ [](/\ pc = "raised" => error # "" /\ "df" \notin assigned
          /\ "df" \in assigned =>
                /\ pc = "done"
                /\ error = ""
                /\ \A l \in Range(league_names) : \E c \in df.columns : c[2] = l)
    /\ [][pc = "raised" => UNCHANGED vars]_vars

C9_Witness ==
    /\ pc = "raised"
    /\ data_i = 2
    /\ data_df.columns # {}

\* C10: a cell of the grouped table that extracted rows fall in holds the sum
\* of the values of those rows, and every other cell holds the sentinel.
C10_CellIsSum ==
    pc \in {"fill_league_currency", "returned"} =>
        /\ league_grp.index = {league[i].Date : i \in DOMAIN league}
        /\ league_grp.columns =
              {<<league[i].Currency, league[i].League>> : i \in DOMAIN league}
        /\ \A t \in league_grp.index : \A c \in league_grp.columns :
              LET S == {i \in DOMAIN league :
                          /\ league[i].Date = t
                          /\ league[i].Currency = c[1]
                          /\ league[i].League = c[2]}
              IN league_grp.cell[<<t, c>>] =
                    IF S = {} THEN NaN ELSE SumOver(league, S)

C10_Witness ==
    /\ pc = "fill_league_currency"
    /\ Len(fs[1].rows) = 2
    /\ chaos_rows(1) = {1, 2}
    /\ fs[1].rows[1].Date = fs[1].rows[2].Date
    /\ fs[1].rows[1].Get = fs[1].rows[2].Get
    /\ fs[1].rows[1].Value # fs[1].rows[2].Value
    /\ \E k \in DOMAIN league_grp.cell : league_grp.cell[k] = 3

====
